---- MODULE Spec2Model ----
(***************************************************************************)
(* State-machine model of src/src/main.c: the Zephyr application made of   *)
(* main(), the statically defined button and LED threads, the sensor ->    *)
(* processing -> database pipeline connected by two message queues, the    *)
(* mutex-protected real-time database rtdb, and uart_callback.             *)
(*                                                                         *)
(* Scheduling.  main() makes no blocking call before k_msleep (line 454),  *)
(* and the application threads (priorities 5..7) are below the main        *)
(* thread, so they take their first step once main sleeps or returns.      *)
(* Among themselves the application threads are interleaved freely, which  *)
(* covers every timing of the sleeps.  uart_callback is invoked by the     *)
(* serial driver on its events (process "isr"); line 442 also makes it the *)
(* entry function of a thread (process "uart").                            *)
(*                                                                         *)
(* The system is checked in parts.  Every part starts from the boot state  *)
(* and runs main(); it then schedules a subset of the threads and driver   *)
(* events, the others never being scheduled in that part.  The variable    *)
(* env fixes, for one run, how much input the environment supplies.        *)
(*                                                                         *)
(* Two parts refine the scheduling: SpecPreempt runs the handler as the     *)
(* driver's interrupt-context callback, which pre-empts main and every      *)
(* thread until it returns; SpecSched runs the threads under the priorities *)
(* given at lines 77-78 and 442-452.                                        *)
(*                                                                         *)
(* Library contracts used: k_mutex (mutual exclusion, K_FOREVER waits),    *)
(* k_msgq (bounded FIFO, K_FOREVER waits), uart_tx (asynchronous: returns  *)
(* at once, refuses with -EBUSY while a transfer is in progress, the       *)
(* transfer ends with a UART_TX_DONE event), uart_rx_enable.               *)
(***************************************************************************)
EXTENDS Integers, Sequences, FiniteSets, TLC

\* ---------------------------------------------------------------- constants
RECEIVE_BUFF_SIZE == 10
RECEIVE_TIMEOUT == 100
MSGQ_MAX_MSGS == 10
NUM_IO == 4
ADC_FULL_SCALE == 1023
TEMP_SCALE == 60000
VOLT_RANGE == 3

\* ------------------------------------------------------------------- bounds
MaxReads == 3        \* ADC reads attempted in the full system
MaxBurst == 12       \* ADC reads attempted in the pipeline-only system
MaxBatches == 2      \* data-ready batches delivered by the serial driver
MaxBatchLen == 2     \* bytes in one data-ready batch
MaxRxStops == 1      \* times the driver closes the receive window

\* ------------------------------------------------------------- input alphabets
RampBase == ADC_FULL_SCALE \div 2   \* mid-scale
CmdBytes == {48, 49, 52, 53, 57, 120}      \* '0' '1' '4' '5' '9' 'x'
IoIdx == 0 .. (NUM_IO - 1)
AllOff == [i \in IoIdx |-> 0]
PinPatterns == {AllOff, [AllOff EXCEPT ![0] = 1]}
Signals == {"ramp", "flat"}
BootFaults == {"none", "uart", "adc", "callback_set", "tx", "rx_enable"}

RECURSIVE SeqsUpTo(_, _)
SeqsUpTo(S, n) ==
    IF n = 0 THEN {<<>>}
    ELSE LET shorter == SeqsUpTo(S, n - 1)
         IN  shorter \cup {Append(s, x) : s \in {t \in shorter : Len(t) = n - 1}, x \in S}
Batches(n) == SeqsUpTo(CmdBytes, n) \ {<<>>}

Threads == {"button", "led", "sensor", "process", "database", "uart"}
Procs == {"main", "isr"} \cup Threads

\* environments: which start-up call fails (if any), the shape of the analog
\* signal, and how many reads, batches, bytes per batch and receiver stops
Envs(boots, signals, reads, batches, batchLen, stops) ==
    [boot : boots, signal : signals, reads : {reads}, batches : {batches},
     batchLen : {batchLen}, stops : {stops}]

VARIABLES
    pc,                 \* position of main, of each thread and of the handler
    owner,              \* rtdb.lock: its holder, or "none"
    led_state, button_state, an_raw, an_val,      \* rtdb.data
    current_led_states, \* led_thread's private copy
    ledPin,             \* logical level driven on the four LED pins
    msgq_adc_raw, msgq_sensor_data,               \* the two message queues in use
    raw_value,          \* sensor_reading_thread's local
    data,               \* SensorData locals of data_processing_thread and database_thread
    adc,                \* number of successful ADC reads so far
    env,                \* the environment of this run: boot fault, signal, input budgets
    cb,                 \* the running uart_callback invocation: buf, i, cmd, val
    output,             \* static char output[64] of uart_callback
    tx,                 \* serial transmitter: busy flag and what it is sending
    rx,                 \* serial receiver: state, last arm request, batches and stops so far
    hist                \* history variables used by the properties

vars == <<pc, owner, led_state, button_state, an_raw, an_val, current_led_states,
          ledPin, msgq_adc_raw, msgq_sensor_data, raw_value, data, adc, env, cb,
          output, tx, rx, hist>>

store == <<led_state, button_state, an_raw, an_val>>

\* ------------------------------------------------------------------ helpers
\* C integer division and (int) casts truncate toward zero
TruncDiv(a, b) == IF a >= 0 THEN a \div b ELSE -((-a) \div b)

\* int16_t raw_value = adc_sample_buffer[0] (uint16_t)
ToInt16(u) == IF u >= 32768 THEN u - 65536 ELSE u

\* voltage = (raw / 1023.0f) * 3.0f ; temperature = (int)(60000 * (voltage - 1)).
\* Evaluated in exact arithmetic; it agrees with the float evaluation on every
\* code the analog input of this model produces.
Temperature(r) ==
    TruncDiv(TEMP_SCALE * VOLT_RANGE * r - TEMP_SCALE * ADC_FULL_SCALE, ADC_FULL_SCALE)

SensorData(r) == [raw_value |-> r, temperature |-> Temperature(r)]
NoData == [raw_value |-> 0, temperature |-> 0]

\* value |= 1 instead of value ^= 1
Or1(v) == IF v % 2 = 0 THEN v + 1 ELSE v

\* value ^ 1 on a uint8_t
Xor1(v) == IF v % 2 = 0 THEN v + 1 ELSE v - 1

\* the code the converter delivers for the n-th successful read
AdcCode(signal, n) ==
    CASE signal = "ramp" -> RampBase + n
      [] signal = "flat" -> RampBase + 1
      [] OTHER           -> 65535

\* snprintf(output, ...) of the four responses
FmtToggle(idx)      == <<"Toggle LED", idx + 1>>
FmtButton(idx, v)   == <<"Button state", idx + 1, v>>
FmtRaw(v)           == <<"Raw sensor value", v>>
FmtProcessed(v)     == <<"Processed sensor value", v>>
tx_buf == <<"Welcome">>
NoText == <<>>

IsLedCmd(cmd)    == cmd >= 49 /\ cmd <= 52
IsButtonCmd(cmd) == cmd >= 53 /\ cmd <= 56
IsRawCmd(cmd)    == cmd = 57
IsValCmd(cmd)    == cmd = 48
Recognized(cmd)  == IsLedCmd(cmd) \/ IsButtonCmd(cmd) \/ IsRawCmd(cmd) \/ IsValCmd(cmd)

RxArm == [buf |-> "rx_buf", len |-> RECEIVE_BUFF_SIZE, timeout |-> RECEIVE_TIMEOUT]
NoArm == [buf |-> "none", len |-> 0, timeout |-> 0]

\* application threads run while main sleeps or after it has returned
MainYielded == pc["main"] \in {"sleep", "return_0", "return_1"}

IdleCb == [buf |-> <<>>, i |-> 0, cmd |-> 0, val |-> 0]

\* ---------------------------------------------------------------------- Init
InitCommon ==
    /\ pc = [p \in Procs |->
               CASE p = "main"              -> "configure"
                 [] p \in {"button", "led"} -> "lock"
                 [] p = "isr"               -> "idle"
                 [] OTHER                   -> "unborn"]
    /\ owner = "none"
    /\ led_state = AllOff /\ button_state = AllOff /\ an_raw = 0 /\ an_val = 0
    /\ current_led_states = AllOff
    /\ ledPin = AllOff
    /\ msgq_adc_raw = <<>> /\ msgq_sensor_data = <<>>
    /\ raw_value = 0
    /\ data = [process |-> NoData, database |-> NoData]
    /\ cb = IdleCb
    /\ adc = 0
    /\ output = NoText
    /\ tx = [busy |-> FALSE, src |-> "none", text |-> NoText]
    /\ hist = [enq |-> <<>>, sdeq |-> <<>>, renq |-> <<>>, rdeq |-> <<>>,
               stored |-> <<>>, parity |-> AllOff, banner |-> 0,
               batchTx |-> <<>>, rearms |-> 0]

    /\ rx = [state |-> "off", arm |-> NoArm, batches |-> 0, stops |-> 0]

\* ------------------------------------------------------- library contracts
\* k_mutex_lock(&rtdb.lock, K_FOREVER): waits until the mutex is free
k_mutex_lock(p) == owner = "none" /\ owner' = p

\* k_mutex_unlock(&rtdb.lock)
k_mutex_unlock(p) == owner' = IF owner = p THEN "none" ELSE owner

\* uart_tx(dev, buf, len, SYS_FOREVER_MS): starts a transfer from buf and
\* returns; -EBUSY while a transfer is in progress.  The result is the
\* transmitter state after the call.
uart_tx(src, text) ==
    IF ~tx.busy
    THEN [busy |-> TRUE, src |-> src, text |-> text]
    ELSE tx

\* uart_rx_enable(dev, rx_buf, sizeof(rx_buf), RECEIVE_TIMEOUT): -EBUSY while
\* reception is enabled.  The result is the receiver state after the call.
uart_rx_enable(buf, len, timeout) ==
    IF rx.state # "armed"
    THEN [rx EXCEPT !.state = "armed",
                    !.arm = [buf |-> buf, len |-> len, timeout |-> timeout]]
    ELSE rx

Goto(p, l) == pc' = [pc EXCEPT ![p] = l]

\* --------------------------------------------------------------------- main
\* line 411: configure_buttons_and_leds(), LED pins GPIO_OUTPUT_ACTIVE
configure_buttons_and_leds ==
    /\ pc["main"] = "configure"
    /\ ledPin' = [i \in IoIdx |-> 1]
    /\ Goto("main", "mutex_init")
    /\ UNCHANGED <<owner, store, current_led_states, msgq_adc_raw, msgq_sensor_data,
                   raw_value, data, adc, env, cb, output, tx, rx, hist>>

\* line 412: k_mutex_init(&rtdb.lock)
main_mutex_init ==
    /\ pc["main"] = "mutex_init"
    /\ owner' = "none"
    /\ Goto("main", "memset")
    /\ UNCHANGED <<store, current_led_states, ledPin, msgq_adc_raw, msgq_sensor_data,
                   raw_value, data, adc, env, cb, output, tx, rx, hist>>

\* line 413: memset(&rtdb.data, 0, sizeof(rtdb.data)), no lock taken
main_memset ==
    /\ pc["main"] = "memset"
    /\ led_state' = AllOff /\ button_state' = AllOff /\ an_raw' = 0 /\ an_val' = 0
    /\ Goto("main", "check_uart")
    /\ UNCHANGED <<owner, current_led_states, ledPin, msgq_adc_raw, msgq_sensor_data,
                   raw_value, data, adc, env, cb, output, tx, rx, hist>>

\* lines 415-418: device_is_ready(uart)
main_check_uart ==
    /\ pc["main"] = "check_uart"
    /\ Goto("main", IF env.boot = "uart" THEN "return_1" ELSE "check_adc")
    /\ UNCHANGED <<owner, store, current_led_states, ledPin, msgq_adc_raw,
                   msgq_sensor_data, raw_value, data, adc, env, cb, output, tx, rx, hist>>

\* lines 420-423: device_is_ready(adc_dev)
main_check_adc ==
    /\ pc["main"] = "check_adc"
    /\ Goto("main", IF env.boot = "adc" THEN "return_1" ELSE "callback_set")
    /\ UNCHANGED <<owner, store, current_led_states, ledPin, msgq_adc_raw,
                   msgq_sensor_data, raw_value, data, adc, env, cb, output, tx, rx, hist>>

\* main with the receiver armed right after the callback is set, no banner
main_callback_set_then_rx ==
    /\ pc["main"] = "callback_set"
    /\ Goto("main", IF env.boot = "callback_set" THEN "return_1" ELSE "rx_enable")
    /\ UNCHANGED <<owner, store, current_led_states, ledPin, msgq_adc_raw,
                   msgq_sensor_data, raw_value, data, adc, env, cb, output, tx, rx, hist>>

\* lines 425-429: uart_callback_set(uart, uart_callback, NULL)
main_callback_set ==
    /\ pc["main"] = "callback_set"
    /\ Goto("main", IF env.boot = "callback_set" THEN "return_1" ELSE "tx_banner")
    /\ UNCHANGED <<owner, store, current_led_states, ledPin, msgq_adc_raw,
                   msgq_sensor_data, raw_value, data, adc, env, cb, output, tx, rx, hist>>

\* lines 431-435: uart_tx(uart, tx_buf, sizeof(tx_buf), SYS_FOREVER_MS)
main_tx_banner ==
    /\ pc["main"] = "tx_banner"
    /\ IF env.boot = "tx"
       THEN /\ Goto("main", "return_1")
            /\ UNCHANGED <<tx, hist>>
       ELSE /\ tx' = uart_tx("tx_buf", tx_buf)
            /\ hist' = [hist EXCEPT !.banner = @ + 1]
            /\ Goto("main", "rx_enable")
    /\ UNCHANGED <<owner, store, current_led_states, ledPin, msgq_adc_raw,
                   msgq_sensor_data, raw_value, data, adc, env, cb, output, rx>>

\* lines 437-440: uart_rx_enable(uart, rx_buf, sizeof(rx_buf), RECEIVE_TIMEOUT)
main_rx_enable ==
    /\ pc["main"] = "rx_enable"
    /\ IF env.boot = "rx_enable"
       THEN /\ Goto("main", "return_1")
            /\ UNCHANGED rx
       ELSE /\ rx' = uart_rx_enable("rx_buf", RECEIVE_BUFF_SIZE, RECEIVE_TIMEOUT)
            /\ Goto("main", "create")
    /\ UNCHANGED <<owner, store, current_led_states, ledPin, msgq_adc_raw,
                   msgq_sensor_data, raw_value, data, adc, env, cb, output, tx, hist>>

\* lines 442-452: the four k_thread_create calls; the first one makes
\* uart_callback the entry function of a thread, with three NULL arguments
main_create_threads ==
    /\ pc["main"] = "create"
    /\ pc' = [pc EXCEPT !["main"] = "sleep", !["uart"] = "entry", !["sensor"] = "setup",
                        !["process"] = "get", !["database"] = "get"]
    /\ UNCHANGED <<owner, store, current_led_states, ledPin, msgq_adc_raw,
                   msgq_sensor_data, raw_value, data, adc, env, cb, output, tx, rx, hist>>

\* lines 454-455: k_msleep(SLEEP_TIME_MS), then main runs off its end
main_sleep ==
    /\ pc["main"] = "sleep"
    /\ Goto("main", "return_0")
    /\ UNCHANGED <<owner, store, current_led_states, ledPin, msgq_adc_raw,
                   msgq_sensor_data, raw_value, data, adc, env, cb, output, tx, rx, hist>>

main ==
    \/ configure_buttons_and_leds \/ main_mutex_init \/ main_memset
    \/ main_check_uart \/ main_check_adc \/ main_callback_set
    \/ main_tx_banner \/ main_rx_enable \/ main_create_threads \/ main_sleep

\* k_msgq_put(q, item, K_FOREVER) completes when the queue has a free slot;
\* k_msgq_get(q, item, K_FOREVER) completes when it holds an item
MsgqHasRoom_off_by_one(q) == Len(q) <= MSGQ_MAX_MSGS
MsgqHasRoom(q) == Len(q) < MSGQ_MAX_MSGS
k_msgq_put_at_front(q, item) == <<item>> \o q
k_msgq_put(q, item) == Append(q, item)
MsgqHasItem(q) == Len(q) > 0
k_msgq_get(q) == [item |-> Head(q), rest |-> Tail(q)]

\* -------------------------------------------------------------- button_thread
\* line 234
button_lock ==
    /\ MainYielded /\ pc["button"] = "lock"
    /\ k_mutex_lock("button")
    /\ Goto("button", "scan")
    /\ UNCHANGED <<store, current_led_states, ledPin, msgq_adc_raw, msgq_sensor_data,
                   raw_value, data, adc, env, cb, output, tx, rx, hist>>

\* what the four compare-and-store blocks leave in button_state for the pin levels read
ButtonUpdate(bs, pins) == [i \in IoIdx |-> IF pins[i] # bs[i] THEN pins[i] ELSE bs[i]]

\* lines 238-263: gpio_pin_get_dt on the four buttons, each stored if it differs
button_scan ==
    /\ MainYielded /\ pc["button"] = "scan"
    /\ \E pins \in PinPatterns : button_state' = ButtonUpdate(button_state, pins)
    /\ Goto("button", "unlock")
    /\ UNCHANGED <<owner, led_state, an_raw, an_val, current_led_states, ledPin,
                   msgq_adc_raw, msgq_sensor_data, raw_value, data, adc, env, cb,
                   output, tx, rx, hist>>

\* line 265
button_unlock ==
    /\ MainYielded /\ pc["button"] = "unlock"
    /\ k_mutex_unlock("button")
    /\ Goto("button", "sleep")
    /\ UNCHANGED <<store, current_led_states, ledPin, msgq_adc_raw, msgq_sensor_data,
                   raw_value, data, adc, env, cb, output, tx, rx, hist>>

\* line 266: k_msleep(100) elapses
button_sleep ==
    /\ MainYielded /\ pc["button"] = "sleep"
    /\ Goto("button", "lock")
    /\ UNCHANGED <<owner, store, current_led_states, ledPin, msgq_adc_raw,
                   msgq_sensor_data, raw_value, data, adc, env, cb, output, tx, rx, hist>>

button_thread == button_lock \/ button_scan \/ button_unlock \/ button_sleep

\* ----------------------------------------------------------------- led_thread
\* line 204
led_lock ==
    /\ MainYielded /\ pc["led"] = "lock"
    /\ k_mutex_lock("led")
    /\ Goto("led", "sync")
    /\ UNCHANGED <<store, current_led_states, ledPin, msgq_adc_raw, msgq_sensor_data,
                   raw_value, data, adc, env, cb, output, tx, rx, hist>>

\* lines 205-210: gpio_pin_set_dt and the private copy, for each LED that differs
led_sync ==
    /\ MainYielded /\ pc["led"] = "sync"
    /\ ledPin' = [i \in IoIdx |-> IF led_state[i] # current_led_states[i]
                                  THEN led_state[i] ELSE ledPin[i]]
    /\ current_led_states' = [i \in IoIdx |-> IF led_state[i] # current_led_states[i]
                                              THEN led_state[i] ELSE current_led_states[i]]
    /\ Goto("led", "unlock")
    /\ UNCHANGED <<owner, store, msgq_adc_raw, msgq_sensor_data, raw_value, data, adc,
                   env, cb, output, tx, rx, hist>>

\* led_thread going to sleep without the k_mutex_unlock of line 211
led_unlock_skipped ==
    /\ MainYielded /\ pc["led"] = "unlock"
    /\ Goto("led", "sleep")
    /\ UNCHANGED <<owner, store, current_led_states, ledPin, msgq_adc_raw,
                   msgq_sensor_data, raw_value, data, adc, env, cb, output, tx, rx, hist>>

\* line 211
led_unlock ==
    /\ MainYielded /\ pc["led"] = "unlock"
    /\ k_mutex_unlock("led")
    /\ Goto("led", "sleep")
    /\ UNCHANGED <<store, current_led_states, ledPin, msgq_adc_raw, msgq_sensor_data,
                   raw_value, data, adc, env, cb, output, tx, rx, hist>>

\* line 212: k_msleep(100) elapses
led_sleep ==
    /\ MainYielded /\ pc["led"] = "sleep"
    /\ Goto("led", "lock")
    /\ UNCHANGED <<owner, store, current_led_states, ledPin, msgq_adc_raw,
                   msgq_sensor_data, raw_value, data, adc, env, cb, output, tx, rx, hist>>

led_thread == led_lock \/ led_sync \/ led_unlock \/ led_sleep

\* ------------------------------------------------------- sensor_reading_thread
\* lines 336-337: adc_channel_setup
sensor_setup ==
    /\ MainYielded /\ pc["sensor"] = "setup"
    /\ Goto("sensor", "read")
    /\ UNCHANGED <<owner, store, current_led_states, ledPin, msgq_adc_raw,
                   msgq_sensor_data, raw_value, data, adc, env, cb, output, tx, rx, hist>>

\* lines 341-342: read_adc succeeds, raw_value = adc_sample_buffer[0]
sensor_read_ok ==
    /\ MainYielded /\ pc["sensor"] = "read"
    /\ adc < env.reads
    /\ adc' = adc + 1
    /\ raw_value' = ToInt16(AdcCode(env.signal, adc + 1))
    /\ Goto("sensor", "put")
    /\ UNCHANGED <<owner, store, current_led_states, ledPin, msgq_adc_raw,
                   msgq_sensor_data, data, env, cb, output, tx, rx, hist>>

\* the result of read_adc not tested: a failed read goes on to the put of
\* line 343 with whatever raw_value holds
sensor_read_fail_enqueues ==
    /\ MainYielded /\ pc["sensor"] = "read"
    /\ Goto("sensor", "put")
    /\ UNCHANGED <<owner, store, current_led_states, ledPin, msgq_adc_raw,
                   msgq_sensor_data, raw_value, data, adc, env, cb, output, tx, rx, hist>>

\* line 341: read_adc returns an error, the cycle is skipped
sensor_read_fail ==
    /\ MainYielded /\ pc["sensor"] = "read"
    /\ Goto("sensor", "sleep")
    /\ UNCHANGED <<owner, store, current_led_states, ledPin, msgq_adc_raw,
                   msgq_sensor_data, raw_value, data, adc, env, cb, output, tx, rx, hist>>

\* line 343: k_msgq_put(&msgq_adc_raw, &raw_value, K_FOREVER)
sensor_put ==
    /\ MainYielded /\ pc["sensor"] = "put"
    /\ MsgqHasRoom(msgq_adc_raw)
    /\ msgq_adc_raw' = k_msgq_put(msgq_adc_raw, raw_value)
    /\ hist' = [hist EXCEPT !.enq = Append(@, raw_value)]
    /\ Goto("sensor", "sleep")
    /\ UNCHANGED <<owner, store, current_led_states, ledPin, msgq_sensor_data,
                   raw_value, data, adc, env, cb, output, tx, rx>>

\* line 346: k_msleep(1000) elapses
sensor_sleep ==
    /\ MainYielded /\ pc["sensor"] = "sleep"
    /\ Goto("sensor", "read")
    /\ UNCHANGED <<owner, store, current_led_states, ledPin, msgq_adc_raw,
                   msgq_sensor_data, raw_value, data, adc, env, cb, output, tx, rx, hist>>

sensor_reading_thread ==
    sensor_setup \/ sensor_read_ok \/ sensor_read_fail \/ sensor_put \/ sensor_sleep

\* ------------------------------------------------------ data_processing_thread
\* lines 365-369: k_msgq_get, then the conversion into data
process_get ==
    /\ MainYielded /\ pc["process"] = "get"
    /\ MsgqHasItem(msgq_adc_raw)
    /\ LET got == k_msgq_get(msgq_adc_raw)
       IN  /\ msgq_adc_raw' = got.rest
           /\ data' = [data EXCEPT !["process"] = SensorData(got.item)]
           /\ hist' = [hist EXCEPT !.sdeq = Append(@, got.item)]
    /\ Goto("process", "put")
    /\ UNCHANGED <<owner, store, current_led_states, ledPin, msgq_sensor_data,
                   raw_value, adc, env, cb, output, tx, rx>>

\* line 370: k_msgq_put(&msgq_sensor_data, &data, K_FOREVER)
process_put ==
    /\ MainYielded /\ pc["process"] = "put"
    /\ MsgqHasRoom(msgq_sensor_data)
    /\ msgq_sensor_data' = k_msgq_put(msgq_sensor_data, data["process"])
    /\ hist' = [hist EXCEPT !.renq = Append(@, data["process"])]
    /\ Goto("process", "get")
    /\ UNCHANGED <<owner, store, current_led_states, ledPin, msgq_adc_raw,
                   raw_value, data, adc, env, cb, output, tx, rx>>

data_processing_thread == process_get \/ process_put

\* ------------------------------------------------------------- database_thread
\* line 390
database_get ==
    /\ MainYielded /\ pc["database"] = "get"
    /\ MsgqHasItem(msgq_sensor_data)
    /\ LET got == k_msgq_get(msgq_sensor_data)
       IN  /\ msgq_sensor_data' = got.rest
           /\ data' = [data EXCEPT !["database"] = got.item]
           /\ hist' = [hist EXCEPT !.rdeq = Append(@, got.item)]
    /\ Goto("database", "lock")
    /\ UNCHANGED <<owner, store, current_led_states, ledPin, msgq_adc_raw,
                   raw_value, adc, env, cb, output, tx, rx>>

\* line 391
database_lock ==
    /\ MainYielded /\ pc["database"] = "lock"
    /\ k_mutex_lock("database")
    /\ Goto("database", "write_raw")
    /\ UNCHANGED <<store, current_led_states, ledPin, msgq_adc_raw, msgq_sensor_data,
                   raw_value, data, adc, env, cb, output, tx, rx, hist>>

\* the unlock of line 394 moved up between the two stores
database_write_raw_then_unlock ==
    /\ MainYielded /\ pc["database"] = "write_raw"
    /\ an_raw' = data["database"].raw_value
    /\ owner' = "none"
    /\ hist' = [hist EXCEPT !.stored = Append(@, data["database"].raw_value)]
    /\ Goto("database", "write_val")
    /\ UNCHANGED <<led_state, button_state, an_val, current_led_states, ledPin,
                   msgq_adc_raw, msgq_sensor_data, raw_value, data, adc, env, cb,
                   output, tx, rx>>

\* line 392: rtdb.data.an_raw = data.raw_value
database_write_raw ==
    /\ MainYielded /\ pc["database"] = "write_raw"
    /\ an_raw' = data["database"].raw_value
    /\ hist' = [hist EXCEPT !.stored = Append(@, data["database"].raw_value)]
    /\ Goto("database", "write_val")
    /\ UNCHANGED <<owner, led_state, button_state, an_val, current_led_states, ledPin,
                   msgq_adc_raw, msgq_sensor_data, raw_value, data, adc, env, cb,
                   output, tx, rx>>

\* line 393: rtdb.data.an_val = data.temperature
database_write_val ==
    /\ MainYielded /\ pc["database"] = "write_val"
    /\ an_val' = data["database"].temperature
    /\ Goto("database", "unlock")
    /\ UNCHANGED <<owner, led_state, button_state, an_raw, current_led_states, ledPin,
                   msgq_adc_raw, msgq_sensor_data, raw_value, data, adc, env, cb,
                   output, tx, rx, hist>>

\* line 394
database_unlock ==
    /\ MainYielded /\ pc["database"] = "unlock"
    /\ k_mutex_unlock("database")
    /\ Goto("database", "get")
    /\ UNCHANGED <<store, current_led_states, ledPin, msgq_adc_raw, msgq_sensor_data,
                   raw_value, data, adc, env, cb, output, tx, rx, hist>>

database_thread ==
    database_get \/ database_lock \/ database_write_raw \/ database_write_val
    \/ database_unlock

\* --------------------------------------------------------------- uart_callback
\* the byte at evt->data.rx.buf[evt->data.rx.offset + i] (line 146)
Cmd == cb.buf[cb.i + 1]
AtByte == pc["isr"] = "loop"
\* the for-loop's i++ and test (line 145)
AfterByte == IF cb.i + 1 < Len(cb.buf) THEN "loop" ELSE "break"

\* lines 148-151: '1'..'4', lock and toggle led_state[cmd - '1']
uart_toggle ==
    /\ AtByte /\ IsLedCmd(Cmd)
    /\ k_mutex_lock("isr")
    /\ led_state' = [led_state EXCEPT ![Cmd - 49] = Xor1(@)]
    /\ cb' = [cb EXCEPT !.cmd = Cmd, !.val = Cmd - 49]
    /\ hist' = [hist EXCEPT !.parity[Cmd - 49] = 1 - @]
    /\ Goto("isr", "unlock")
    /\ UNCHANGED <<button_state, an_raw, an_val, current_led_states, ledPin, msgq_adc_raw,
                   msgq_sensor_data, raw_value, data, adc, env, output, tx, rx>>

\* a button command that clears the flag it reads
uart_button_read_and_clear ==
    /\ AtByte /\ ~IsLedCmd(Cmd) /\ IsButtonCmd(Cmd)
    /\ k_mutex_lock("isr")
    /\ cb' = [cb EXCEPT !.cmd = Cmd, !.val = button_state[Cmd - 53]]
    /\ button_state' = [button_state EXCEPT ![Cmd - 53] = 0]
    /\ Goto("isr", "unlock")
    /\ UNCHANGED <<led_state, an_raw, an_val, current_led_states, ledPin, msgq_adc_raw,
                   msgq_sensor_data, raw_value, data, adc, env, output, tx, rx, hist>>

\* lines 154-157: '5'..'8', lock and read button_state[cmd - '5']
uart_button ==
    /\ AtByte /\ ~IsLedCmd(Cmd) /\ IsButtonCmd(Cmd)
    /\ k_mutex_lock("isr")
    /\ cb' = [cb EXCEPT !.cmd = Cmd, !.val = button_state[Cmd - 53]]
    /\ Goto("isr", "unlock")
    /\ UNCHANGED <<store, current_led_states, ledPin, msgq_adc_raw, msgq_sensor_data,
                   raw_value, data, adc, env, output, tx, rx, hist>>

\* lines 160-162: '9', lock and read an_raw
uart_raw ==
    /\ AtByte /\ ~IsLedCmd(Cmd) /\ ~IsButtonCmd(Cmd) /\ IsRawCmd(Cmd)
    /\ k_mutex_lock("isr")
    /\ cb' = [cb EXCEPT !.cmd = Cmd, !.val = an_raw]
    /\ Goto("isr", "unlock")
    /\ UNCHANGED <<store, current_led_states, ledPin, msgq_adc_raw, msgq_sensor_data,
                   raw_value, data, adc, env, output, tx, rx, hist>>

\* lines 165-167: '0', lock and read an_val
uart_processed ==
    /\ AtByte /\ ~IsLedCmd(Cmd) /\ ~IsButtonCmd(Cmd) /\ ~IsRawCmd(Cmd) /\ IsValCmd(Cmd)
    /\ k_mutex_lock("isr")
    /\ cb' = [cb EXCEPT !.cmd = Cmd, !.val = an_val]
    /\ Goto("isr", "unlock")
    /\ UNCHANGED <<store, current_led_states, ledPin, msgq_adc_raw, msgq_sensor_data,
                   raw_value, data, adc, env, output, tx, rx, hist>>

\* the else branch without its continue: falls through to uart_tx
uart_ignore_falls_through ==
    /\ AtByte /\ ~Recognized(Cmd)
    /\ Goto("isr", "tx")
    /\ UNCHANGED <<owner, store, current_led_states, ledPin, msgq_adc_raw,
                   msgq_sensor_data, raw_value, data, adc, env, cb, output, tx, rx, hist>>

\* lines 170-172: any other byte, continue
uart_ignore ==
    /\ AtByte /\ ~Recognized(Cmd)
    /\ cb' = [cb EXCEPT !.i = @ + 1]
    /\ Goto("isr", AfterByte)
    /\ UNCHANGED <<owner, store, current_led_states, ledPin, msgq_adc_raw,
                   msgq_sensor_data, raw_value, data, adc, env, output, tx, rx, hist>>

\* the text snprintf leaves in output for the command and the value read
Response(cmd, val) ==
    CASE IsLedCmd(cmd)    -> FmtToggle(val)
      [] IsButtonCmd(cmd) -> FmtButton(cmd - 53, val)
      [] IsRawCmd(cmd)    -> FmtRaw(val)
      [] OTHER            -> FmtProcessed(val)

\* lines 152-153, 158-159, 163-164, 168-169: unlock, then snprintf into output
uart_unlock ==
    /\ pc["isr"] = "unlock"
    /\ k_mutex_unlock("isr")
    /\ output' = Response(cb.cmd, cb.val)
    /\ Goto("isr", "tx")
    /\ UNCHANGED <<store, current_led_states, ledPin, msgq_adc_raw, msgq_sensor_data,
                   raw_value, data, adc, env, cb, tx, rx, hist>>

\* line 174: uart_tx(dev, output, strlen(output), SYS_FOREVER_MS), result ignored
uart_respond ==
    /\ pc["isr"] = "tx"
    /\ tx' = uart_tx("output", output)
    /\ hist' = [hist EXCEPT !.batchTx = IF tx' # tx THEN Append(@, output) ELSE @]
    /\ cb' = [cb EXCEPT !.i = @ + 1]
    /\ Goto("isr", AfterByte)
    /\ UNCHANGED <<owner, store, current_led_states, ledPin, msgq_adc_raw,
                   msgq_sensor_data, raw_value, data, adc, env, output, rx>>

\* line 176: break, and the handler returns
uart_return ==
    /\ pc["isr"] = "break"
    /\ cb' = IdleCb
    /\ hist' = [hist EXCEPT !.batchTx = <<>>]
    /\ Goto("isr", "idle")
    /\ UNCHANGED <<owner, store, current_led_states, ledPin, msgq_adc_raw,
                   msgq_sensor_data, raw_value, data, adc, env, output, tx, rx>>

\* case UART_RX_RDY (lines 144-176), one step per source statement group
uart_rx_rdy ==
    \/ uart_toggle \/ uart_button \/ uart_raw \/ uart_processed
    \/ uart_ignore \/ uart_unlock \/ uart_respond \/ uart_return

\* ------------------------------------------------- serial driver and its events
\* the driver reports received bytes and calls the handler with UART_RX_RDY
isr_rx_rdy ==
    /\ pc["isr"] = "idle" /\ rx.state = "armed" /\ rx.batches < env.batches
    /\ \E b \in Batches(env.batchLen) : cb' = [IdleCb EXCEPT !.buf = b]
    /\ rx' = [rx EXCEPT !.batches = @ + 1]
    /\ Goto("isr", "loop")
    /\ UNCHANGED <<owner, store, current_led_states, ledPin, msgq_adc_raw,
                   msgq_sensor_data, raw_value, data, adc, env, output, tx, hist>>

\* the driver closes the receive window (buffer used up or reception stopped)
driver_rx_stop ==
    /\ rx.state = "armed" /\ rx.stops < env.stops
    /\ rx' = [rx EXCEPT !.state = "disabled", !.stops = @ + 1]
    /\ UNCHANGED <<pc, owner, store, current_led_states, ledPin, msgq_adc_raw,
                   msgq_sensor_data, raw_value, data, adc, env, cb, output, tx, hist>>

\* case UART_RX_DISABLED that only breaks, no uart_rx_enable
uart_rx_disabled_no_enable ==
    /\ pc["isr"] = "idle" /\ rx.state = "disabled"
    /\ UNCHANGED vars

\* case UART_RX_DISABLED (lines 177-179)
uart_rx_disabled ==
    /\ pc["isr"] = "idle" /\ rx.state = "disabled"
    /\ rx' = uart_rx_enable("rx_buf", RECEIVE_BUFF_SIZE, RECEIVE_TIMEOUT)
    /\ hist' = [hist EXCEPT !.rearms = @ + 1]
    /\ UNCHANGED <<pc, owner, store, current_led_states, ledPin, msgq_adc_raw,
                   msgq_sensor_data, raw_value, data, adc, env, cb, output, tx>>

\* the transfer in progress ends: UART_TX_DONE, default case (lines 180-181)
uart_default ==
    /\ pc["isr"] = "idle" /\ tx.busy
    /\ tx' = [busy |-> FALSE, src |-> "none", text |-> NoText]
    /\ UNCHANGED <<pc, owner, store, current_led_states, ledPin, msgq_adc_raw,
                   msgq_sensor_data, raw_value, data, adc, env, cb, output, rx, hist>>

uart_callback == uart_rx_rdy \/ uart_rx_disabled \/ uart_default

\* lines 442-443 with line 143: the thread enters uart_callback(NULL, NULL, NULL)
\* and the switch reads evt->type through a null pointer.  On the target the
\* word at address 0 is the initial stack pointer, which matches no case label:
\* the read faults (null-pointer detection) or the switch takes its default
\* case and the thread ends.
uart_thread_entry ==
    /\ MainYielded /\ pc["uart"] = "entry"
    /\ \/ Goto("uart", "fault")
       \/ Goto("uart", "done")
    /\ UNCHANGED <<owner, store, current_led_states, ledPin, msgq_adc_raw,
                   msgq_sensor_data, raw_value, data, adc, env, cb, output, tx, rx, hist>>

\* ------------------------------------------------------------ specifications
\* the whole system, on one ADC read, one received byte and one receiver stop
Init ==
    /\ InitCommon
    /\ env \in Envs(BootFaults, {"flat"}, 1, 1, 1, 1)

Next ==
    \/ main
    \/ button_thread \/ led_thread
    \/ sensor_reading_thread \/ data_processing_thread \/ database_thread
    \/ isr_rx_rdy \/ driver_rx_stop \/ uart_callback
    \/ uart_thread_entry

Spec == Init /\ [][Next]_vars

\* the command interface: main, the serial driver and the handler
InitSerial ==
    /\ InitCommon
    /\ env \in Envs(BootFaults, {"flat"}, 0, MaxBatches, MaxBatchLen, 1)

NextSerial ==
    \/ main
    \/ isr_rx_rdy \/ driver_rx_stop \/ uart_callback

SpecSerial == InitSerial /\ [][NextSerial]_vars

\* Fairness of the whole system: every thread keeps running, the handler runs
\* to completion once entered (the lock is granted to a waiter when released,
\* hence strong fairness on its locking steps) and a pending 'receive
\* disabled' event is delivered once the handler is idle.
FairSpec ==
    /\ Spec
    /\ WF_vars(main) /\ WF_vars(button_thread) /\ WF_vars(led_thread)
    /\ WF_vars(sensor_reading_thread) /\ WF_vars(data_processing_thread)
    /\ WF_vars(database_thread) /\ WF_vars(uart_thread_entry)
    /\ SF_vars(uart_rx_rdy) /\ WF_vars(uart_rx_disabled)

\* the receive state machine: main, the serial driver and handler on one
\* received byte, and the button and LED threads as the other users of the lock
InitRearm ==
    /\ InitCommon
    /\ env \in Envs(BootFaults, {"flat"}, 0, 1, 1, MaxRxStops)

NextRearm ==
    \/ main
    \/ button_thread \/ led_thread
    \/ isr_rx_rdy \/ driver_rx_stop \/ uart_callback

SpecRearm == InitRearm /\ [][NextRearm]_vars

FairRearm ==
    /\ SpecRearm
    /\ WF_vars(main) /\ WF_vars(button_thread) /\ WF_vars(led_thread)
    /\ SF_vars(uart_rx_rdy) /\ WF_vars(uart_rx_disabled)

\* the sensor pipeline: main, the three pipeline threads and the button thread
\* as a second user of the lock
InitPipeline ==
    /\ InitCommon
    /\ env \in Envs({"none"}, Signals, MaxBurst, 0, 0, 0)

NextPipeline ==
    \/ main
    \/ button_thread
    \/ sensor_reading_thread \/ data_processing_thread \/ database_thread

SpecPipeline == InitPipeline /\ [][NextPipeline]_vars

\* the readers and writers of the two sensor fields: main, the pipeline and
\* the serial handler
InitStore ==
    /\ InitCommon
    /\ env \in Envs({"none"}, {"ramp"}, MaxReads, 1, MaxBatchLen, 0)

NextStore ==
    \/ main
    \/ sensor_reading_thread \/ data_processing_thread \/ database_thread
    \/ isr_rx_rdy \/ uart_rx_rdy \/ uart_default

SpecStore == InitStore /\ [][NextStore]_vars

\* The handler as what uart_callback_set (line 425) makes it: a callback the
\* serial driver runs in interrupt context.  It pre-empts main and every
\* thread, and none of them runs again before it has returned.
HandlerActive == pc["isr"] # "idle"

\* lines 150, 156, 161, 166 reached in interrupt context while the mutex is
\* held.  Zephyr forbids k_mutex_lock there; what the kernel does depends on
\* the thread that was interrupted: if that thread is the holder, the kernel
\* takes the caller for the holder and grants the mutex recursively (this
\* action: the handler goes on, the holder unchanged); otherwise the call
\* cannot be granted and the handler does not get past it (no step).
uart_lock_reentered ==
    /\ AtByte /\ Recognized(Cmd) /\ owner \in Threads
    /\ led_state' = IF IsLedCmd(Cmd) THEN [led_state EXCEPT ![Cmd - 49] = Xor1(@)]
                     ELSE led_state
    /\ hist' = IF IsLedCmd(Cmd) THEN [hist EXCEPT !.parity[Cmd - 49] = 1 - @] ELSE hist
    /\ cb' = [cb EXCEPT !.cmd = Cmd,
                        !.val = CASE IsLedCmd(Cmd)    -> Cmd - 49
                                  [] IsButtonCmd(Cmd) -> button_state[Cmd - 53]
                                  [] IsRawCmd(Cmd)    -> an_raw
                                  [] OTHER            -> an_val]
    /\ Goto("isr", "unlock")
    /\ UNCHANGED <<owner, button_state, an_raw, an_val, current_led_states, ledPin,
                   msgq_adc_raw, msgq_sensor_data, raw_value, data, adc, env, output,
                   tx, rx>>

\* the whole system with the handler pre-empting: one ADC read, single-byte batches
InitPreempt ==
    /\ InitCommon
    /\ env \in Envs({"none"}, {"flat"}, 1, MaxBatches, 1, 0)

NextPreempt ==
    \/ (~HandlerActive /\ main)
    \/ (~HandlerActive /\ button_thread)
    \/ (~HandlerActive /\ led_thread)
    \/ (~HandlerActive /\ sensor_reading_thread)
    \/ (~HandlerActive /\ data_processing_thread)
    \/ (~HandlerActive /\ database_thread)
    \/ isr_rx_rdy \/ uart_rx_rdy \/ uart_lock_reentered \/ uart_default

SpecPreempt == InitPreempt /\ [][NextPreempt]_vars

\* Fair scheduling: main and every thread keep running whenever the handler is
\* not active, a thread waiting for the mutex gets it when it is released
\* (strong fairness), and the handler, once invoked, executes whatever
\* statement it can execute.
FairPreempt ==
    /\ SpecPreempt
    /\ WF_vars(~HandlerActive /\ main)
    /\ SF_vars(~HandlerActive /\ button_thread)
    /\ SF_vars(~HandlerActive /\ led_thread)
    /\ SF_vars(~HandlerActive /\ sensor_reading_thread)
    /\ SF_vars(~HandlerActive /\ data_processing_thread)
    /\ SF_vars(~HandlerActive /\ database_thread)
    /\ WF_vars(uart_rx_rdy) /\ WF_vars(uart_default)

\* ---------------------------------------------------------------- scheduling
\* the priority argument of K_THREAD_DEFINE (lines 77-78) and of k_thread_create
\* (lines 443, 450-452); in Zephyr a numerically lower priority is the higher one
Priority ==
    [t \in Threads |->
        CASE t = "button"   -> 7
          [] t = "led"      -> 7
          [] t = "uart"     -> 6
          [] t = "sensor"   -> 7
          [] t = "process"  -> 6
          [] t = "database" -> 5]

HigherPriority(a, b) == Priority[a] < Priority[b]

\* t is ready: started, not asleep, and not waiting for the mutex or a queue
Ready(t) ==
    /\ MainYielded
    /\ CASE t = "button"   -> pc[t] \in {"scan", "unlock"} \/ (pc[t] = "lock" /\ owner = "none")
         [] t = "led"      -> pc[t] \in {"sync", "unlock"} \/ (pc[t] = "lock" /\ owner = "none")
         [] t = "uart"     -> pc[t] = "entry"
         [] t = "sensor"   -> \/ pc[t] \in {"setup", "read"}
                              \/ (pc[t] = "put" /\ MsgqHasRoom(msgq_adc_raw))
         [] t = "process"  -> \/ (pc[t] = "get" /\ MsgqHasItem(msgq_adc_raw))
                              \/ (pc[t] = "put" /\ MsgqHasRoom(msgq_sensor_data))
         [] t = "database" -> \/ (pc[t] = "get" /\ MsgqHasItem(msgq_sensor_data))
                              \/ (pc[t] = "lock" /\ owner = "none")
                              \/ pc[t] \in {"write_raw", "write_val", "unlock"}

\* the scheduler picks t: no ready thread has a higher priority
Scheduled(t) == Ready(t) /\ \A u \in Threads : Ready(u) => ~HigherPriority(u, t)

\* the threads under the priority scheduler, on two ADC reads; the sleeps
\* elapse at any time
InitSched ==
    /\ InitCommon
    /\ env \in Envs({"none"}, {"ramp"}, 2, 0, 0, 0)

NextSched ==
    \/ main
    \/ button_sleep \/ led_sleep \/ sensor_sleep
    \/ (Scheduled("button") /\ (button_lock \/ button_scan \/ button_unlock))
    \/ (Scheduled("led") /\ (led_lock \/ led_sync \/ led_unlock))
    \/ (Scheduled("sensor") /\ (sensor_setup \/ sensor_read_ok \/ sensor_read_fail \/ sensor_put))
    \/ (Scheduled("process") /\ data_processing_thread)
    \/ (Scheduled("database") /\ database_thread)
    \/ (Scheduled("uart") /\ uart_thread_entry)

SpecSched == InitSched /\ [][NextSched]_vars

\* ------------------------------------------------------------------ properties
\* the pairs of the readings the database thread has taken from its queue
DequeuedPairs == {<<hist.rdeq[k].raw_value, hist.rdeq[k].temperature>> : k \in 1 .. Len(hist.rdeq)}

\* C1 -- Store read atomicity: whenever the lock is not held by the database
\* thread (in particular whenever a reader holds it), the pair (an_raw, an_val)
\* is the initial (0, 0) or the two fields of one single reading that the
\* database thread dequeued; never a mix of two persistence writes.
StoreReadAtomicity ==
    owner # "database" => (<<an_raw, an_val>> = <<0, 0>> \/ <<an_raw, an_val>> \in DequeuedPairs)

\* the handler holds the lock for a '0' command after two persistence writes
StoreReadAtomicityWitness ==
    /\ owner = "isr" /\ cb.cmd = 48 /\ cb.val = an_val
    /\ Len(hist.stored) = 2 /\ an_raw = hist.stored[2] /\ an_raw # hist.stored[1]

IsPrefix(s, t) == Len(s) <= Len(t) /\ s = SubSeq(t, 1, Len(s))
RawsOf(readings) == [k \in 1 .. Len(readings) |-> readings[k].raw_value]
\* the item a thread holds between its get and the completion of what it does with it
InHand(p, labels, item) == IF pc[p] \in labels THEN <<item>> ELSE <<>>

\* C2 -- Pipeline FIFO without loss: the raw values written to an_raw are a
\* prefix, in order, of the raw values enqueued by the sensor thread; every
\* sample put on msgq_adc_raw is either still queued, in order, or was taken
\* exactly once by the processing thread, and likewise every reading put on
\* msgq_sensor_data by the database thread; nothing is dropped, duplicated,
\* reordered or merged on the way.
PipelineFifo ==
    /\ IsPrefix(hist.stored, hist.enq)
    /\ hist.enq = hist.sdeq \o msgq_adc_raw
    /\ hist.renq = hist.rdeq \o msgq_sensor_data
    /\ hist.sdeq = RawsOf(hist.renq) \o InHand("process", {"put"}, data["process"].raw_value)
    /\ RawsOf(hist.rdeq) =
          hist.stored \o InHand("database", {"lock", "write_raw"}, data["database"].raw_value)

\* three different samples have reached an_raw while both queues hold items
PipelineFifoWitness ==
    /\ env.signal = "ramp" /\ Len(hist.stored) = 3 /\ an_raw = hist.enq[3]
    /\ hist.enq[1] # hist.enq[2] /\ hist.enq[2] # hist.enq[3]
    /\ Len(msgq_adc_raw) >= 2 /\ Len(msgq_sensor_data) >= 2

\* a producer that stays where it is, the queue untouched or shortened at its head
StaysBlocked(p, q, item) ==
    /\ pc'[p] = "put" /\ item' = item
    /\ q' = q \/ q' = Tail(q)

\* C3 -- Queue backpressure: neither queue ever holds more than 10 items; a
\* producer whose put finds 10 items stays in the put, with its item, while the
\* queue is only ever shortened at its head by the consumer; and a put
\* completes only by appending the producer's item to the queue.
QueueBackpressure ==
    /\ [](Len(msgq_adc_raw) <= MSGQ_MAX_MSGS /\ Len(msgq_sensor_data) <= MSGQ_MAX_MSGS)
    /\ [][/\ (pc["sensor"] = "put" /\ Len(msgq_adc_raw) = MSGQ_MAX_MSGS)
              => StaysBlocked("sensor", msgq_adc_raw, raw_value)
          /\ (pc["process"] = "put" /\ Len(msgq_sensor_data) = MSGQ_MAX_MSGS)
              => StaysBlocked("process", msgq_sensor_data, data["process"])
          /\ (pc["sensor"] = "put" /\ pc'["sensor"] # "put")
              => msgq_adc_raw' = Append(msgq_adc_raw, raw_value)
          /\ (pc["process"] = "put" /\ pc'["process"] # "put")
              => msgq_sensor_data' = Append(msgq_sensor_data, data["process"])]_vars

\* the sensor thread is in its put while the sample queue holds 10 items
QueueBackpressureWitness ==
    /\ pc["sensor"] = "put" /\ Len(msgq_adc_raw) = MSGQ_MAX_MSGS
    /\ Len(hist.enq) = MSGQ_MAX_MSGS /\ hist.sdeq = <<>>

RECURSIVE CountByte(_, _)
CountByte(s, b) == IF s = <<>> THEN 0 ELSE (IF Head(s) = b THEN 1 ELSE 0) + CountByte(Tail(s), b)

\* C4 -- Toggle parity: led_state[n] is 0 XORed once per byte '0'+n processed
\* so far, for every LED n in 1..4; when the first batch has been processed,
\* it is the parity of the number of bytes '0'+n in that batch.
ToggleParity ==
    /\ \A n \in 1 .. NUM_IO : led_state[n - 1] = hist.parity[n - 1]
    /\ (pc["isr"] = "break" /\ rx.batches = 1)
         => \A n \in 1 .. NUM_IO : led_state[n - 1] = CountByte(cb.buf, 48 + n) % 2

\* a third '1' has been processed (one in the first batch, two in the second)
\* and LED 1 is on, LED 4 untouched
ToggleParityWitness ==
    /\ pc["isr"] = "break" /\ rx.batches = 2 /\ cb.buf = <<49, 49>>
    /\ led_state[0] = 1 /\ led_state[3] = 0

\* the first word of the response text of a command
Kind(cmd) == Response(cmd, 0)[1]

\* C5 -- One response per recognized command (as claimed): when the handler
\* has gone through a data-ready batch, the serial driver has taken one
\* response for each byte in '0'..'9' of the batch, in the order of the bytes.
OneResponsePerCommand ==
    pc["isr"] = "break" =>
        LET want == SelectSeq(cb.buf, Recognized)
        IN  /\ Len(hist.batchTx) = Len(want)
            /\ \A k \in 1 .. Len(want) : hist.batchTx[k][1] = Kind(want[k])

\* the handler's own step from the byte it is at
HandlerStep == pc'["isr"] # pc["isr"] \/ cb' # cb

\* C6 -- Unrecognized byte is a no-op: the handler's step on a byte outside
\* '0'..'9' transmits nothing, does not take the lock, leaves led_state,
\* button_state, an_raw and an_val (and the output buffer) unchanged, and goes
\* on to the next byte of the batch.
UnrecognizedIsNoOp ==
    [][(pc["isr"] = "loop" /\ ~Recognized(Cmd) /\ HandlerStep)
        => /\ store' = store /\ owner' = owner /\ owner # "isr"
           /\ tx' = tx /\ output' = output /\ hist'.batchTx = hist.batchTx
           /\ cb'.buf = cb.buf /\ cb'.i = cb.i + 1
           /\ pc'["isr"] = IF cb'.i < Len(cb.buf) THEN "loop" ELSE "break"]_vars

\* 'x' was skipped and the '1' after it is being processed
UnrecognizedIsNoOpWitness ==
    /\ pc["isr"] = "unlock" /\ cb.buf = <<120, 49>> /\ cb.i = 1
    /\ hist.batchTx = <<>> /\ led_state[0] = 1

\* the places where a process is reading or writing rtdb.data
InStore(p) ==
    CASE p = "main"     -> pc[p] = "memset"
      [] p = "button"   -> pc[p] \in {"scan", "unlock"}
      [] p = "led"      -> pc[p] \in {"sync", "unlock"}
      [] p = "database" -> pc[p] \in {"write_raw", "write_val", "unlock"}
      [] p = "isr"      -> pc[p] = "unlock"
      [] OTHER          -> FALSE

\* C7 -- Lock discipline (as claimed): every accessor of the Store, main
\* included, holds rtdb.lock while it reads or writes a field, so no two
\* accessors are inside the Store together.
LockDiscipline ==
    /\ \A p \in Procs : InStore(p) => owner = p
    /\ \A p, q \in Procs : (InStore(p) /\ InStore(q)) => p = q

\* C8 -- Fatal start-up check (as claimed): when the serial device or the ADC
\* is not ready, main returns 1 and no thread and no handler invocation ever
\* takes a step, before or after the return.
FatalStartupCheck ==
    env.boot \in {"uart", "adc"} =>
        /\ pc["main"] # "return_0"
        /\ pc["button"] = "lock" /\ pc["led"] = "lock" /\ pc["isr"] = "idle"
        /\ \A t \in {"sensor", "process", "database", "uart"} : pc[t] = "unborn"
        /\ owner = "none"

\* C9 -- Start-up banner ordering: the welcome string is handed to uart_tx at
\* most once, and exactly once before the receiver is armed; so it precedes
\* every handler invocation, every processed byte and every response.
BannerFirst ==
    /\ hist.banner <= 1
    /\ (rx.state # "off" \/ rx.batches > 0 \/ pc["isr"] # "idle" \/ output # NoText
          \/ tx.src = "output")
        => hist.banner = 1
    /\ (rx.state = "off" /\ tx.busy) => (tx.src = "tx_buf" /\ tx.text = tx_buf)

\* a command response is in transmission, after the banner
BannerFirstWitness ==
    /\ tx.busy /\ tx.src = "output" /\ hist.banner = 1 /\ rx.batches >= 1

TransformationFormula ==
    /\ RawsOf(hist.renq) = SubSeq(hist.sdeq, 1, Len(hist.renq))
    /\ \A k \in 1 .. Len(hist.renq) :
          LET r == hist.renq[k].raw_value
              d == hist.renq[k].temperature
              exact1023 == 60 * VOLT_RANGE * r - 60 * ADC_FULL_SCALE
          IN  /\ ADC_FULL_SCALE * d - exact1023 < ADC_FULL_SCALE
              /\ exact1023 - ADC_FULL_SCALE * d < ADC_FULL_SCALE
    /\ \A j, k \in 1 .. Len(hist.renq) :
          hist.renq[j].raw_value = hist.renq[k].raw_value
              => hist.renq[j].temperature = hist.renq[k].temperature

\* gpio_pin_get_dt / gpio_pin_set_dt / uart_tx is the next thing p executes
DoingIo(p) ==
    CASE p = "button" -> pc[p] = "scan"
      [] p = "led"    -> pc[p] = "sync" /\ led_state # current_led_states
      [] p = "isr"    -> pc[p] = "tx"
      [] p = "main"   -> pc[p] \in {"configure", "tx_banner"}
      [] OTHER        -> FALSE

\* C12 -- No I/O under the lock (as claimed): no holder of rtdb.lock performs
\* hardware I/O; the LED thread sets a pin, the button thread reads the button
\* pins and the handler calls uart_tx only while not holding the lock.
NoIoUnderLock ==
    \A p \in Procs : DoingIo(p) => owner # p

\* p has called k_mutex_lock(&rtdb.lock, K_FOREVER) and has not been granted it
Requesting(p) ==
    CASE p = "isr" -> pc[p] = "loop" /\ Recognized(Cmd)
      [] OTHER     -> MainYielded /\ pc[p] = "lock"

\* C13 -- Store lock acquisition always succeeds (as claimed): under fair
\* scheduling every request for rtdb.lock, by the button, LED and database
\* threads and by the handler running as the driver's callback, is followed
\* by the requester going on past its k_mutex_lock call.
LockAlwaysGranted ==
    \A p \in {"button", "led", "database", "isr"} : Requesting(p) ~> ~Requesting(p)

\* the statements between p's k_mutex_lock and its k_mutex_unlock
Critical(p) ==
    CASE p = "button"   -> {"scan", "unlock"}
      [] p = "led"      -> {"sync", "unlock"}
      [] p = "database" -> {"write_raw", "write_val", "unlock"}
      [] p = "isr"      -> {"unlock"}
      [] OTHER          -> {}

\* C14 -- Lock always released: whoever holds rtdb.lock is between its own
\* k_mutex_lock and k_mutex_unlock, so no component sleeps, waits on a queue,
\* starts a new loop iteration or has returned from the handler while holding
\* it; and the lock leaves a holder only by that holder's own unlock step,
\* which sets it free.
LockAlwaysReleased ==
    /\ [](\A p \in Procs : owner = p => pc[p] \in Critical(p))
    /\ [][\A p \in Procs :
            (owner = p /\ owner' # p)
                => (owner' = "none" /\ pc[p] = "unlock" /\ pc'[p] # "unlock")]_vars

\* every lock user has been through a locked section and none holds the lock:
\* the threads are asleep or waiting on a queue, the handler has returned
LockAlwaysReleasedWitness ==
    /\ owner = "none"
    /\ pc["button"] = "sleep" /\ pc["led"] = "sleep" /\ led_state = current_led_states
    /\ pc["database"] = "get" /\ Len(hist.stored) = 1
    /\ pc["isr"] = "idle" /\ rx.batches = 1 /\ output # NoText

\* p takes a step
Steps(p) == pc'[p] # pc[p]

\* C15 -- Single-writer frame: once main has finished start-up, button_state
\* changes only in a step of the button thread, an_raw and an_val only in a
\* step of the database thread, led_state only in the handler's step on a byte
\* '1'..'4', which flips led_state[cmd - '1'] and changes nothing else of the
\* store; the handler's steps on '5'..'9' and '0' and the steps of the LED
\* thread leave the four fields unchanged.
SingleWriterFrame ==
    [][MainYielded =>
        /\ button_state' # button_state => (Steps("button") /\ pc["button"] = "scan")
        /\ (an_raw' # an_raw \/ an_val' # an_val)
              => (Steps("database") /\ pc["database"] \in {"write_raw", "write_val"})
        /\ led_state' # led_state
              => /\ Steps("isr") /\ pc["isr"] = "loop" /\ IsLedCmd(Cmd)
                 /\ led_state' = [led_state EXCEPT ![Cmd - 49] = 1 - @]
                 /\ button_state' = button_state /\ an_raw' = an_raw /\ an_val' = an_val
        /\ (Steps("isr") /\ pc["isr"] \in {"loop", "unlock", "tx"} /\ ~IsLedCmd(Cmd))
              => store' = store
        /\ Steps("led") => store' = store]_vars

\* each writer has written its fields, and the LED thread has just copied a
\* toggled LED to its pin
SingleWriterFrameWitness ==
    /\ button_state[0] = 1 /\ an_raw # 0 /\ an_val # 0 /\ led_state[0] = 1
    /\ pc["led"] = "unlock" /\ current_led_states = led_state

\* the samples delivered by the successful ADC reads so far
GoodSamples == {ToInt16(AdcCode(env.signal, k)) : k \in 1 .. adc}

\* C16 -- Acquisition failure is skipped: a cycle of the sensor thread whose
\* read_adc fails goes straight to the sleep, enqueues nothing and changes no
\* other state, and after the sleep the thread reads again; the samples put
\* on msgq_adc_raw are exactly the results of the successful reads, in order,
\* and every item in either queue comes from a successful read.
AcquisitionFailureSkipped ==
    /\ [](/\ Len(hist.enq) + (IF pc["sensor"] = "put" THEN 1 ELSE 0) = adc
          /\ \A k \in 1 .. Len(hist.enq) : hist.enq[k] = ToInt16(AdcCode(env.signal, k))
          /\ \A k \in 1 .. Len(msgq_adc_raw) : msgq_adc_raw[k] \in GoodSamples
          /\ \A k \in 1 .. Len(msgq_sensor_data) :
                \E r \in GoodSamples : msgq_sensor_data[k] = SensorData(r))
    /\ [][(pc["sensor"] = "read" /\ pc'["sensor"] = "sleep")
            => /\ msgq_adc_raw' = msgq_adc_raw /\ msgq_sensor_data' = msgq_sensor_data
               /\ raw_value' = raw_value /\ adc' = adc /\ data' = data
               /\ store' = store /\ owner' = owner /\ hist' = hist]_vars
    /\ [][(pc["sensor"] = "sleep" /\ pc'["sensor"] # "sleep") => pc'["sensor"] = "read"]_vars

\* the first cycle of the sensor thread has failed: the thread is in its
\* sleep, no read has succeeded and nothing has been enqueued
AcquisitionFailureSkippedWitness ==
    /\ pc["sensor"] = "sleep" /\ adc = 0
    /\ hist.enq = <<>> /\ msgq_adc_raw = <<>> /\ msgq_sensor_data = <<>>

\* t executes a statement (the end of a sleep is the timer's step, not t's)
Runs(t) == pc'[t] # pc[t] /\ pc[t] # "sleep"

\* C17 -- Static priority tiers (as claimed): the thread priorities form three
\* tiers, and whenever one of the sensor, processing, button and LED threads
\* and one of the database and uart threads are both ready, the former has the
\* strictly higher priority and the latter does not run.
StaticPriorityTiers ==
    /\ [](Cardinality({Priority[t] : t \in Threads}) = 3)
    /\ [][\A a \in {"sensor", "process", "button", "led"} :
          \A b \in {"database", "uart"} :
            (Ready(a) /\ Ready(b)) => (HigherPriority(a, b) /\ ~Runs(b))]_vars

\* C18 -- Handler runs only on driver events (as claimed): uart_callback is
\* entered by the serial driver with an event only; no thread ever enters it
\* with a null event and reads evt->type through it.
HandlerOnlyOnEvents ==
    \A t \in Threads : pc[t] \notin {"fault", "done"}

\* C19 -- LED output follows the store (as claimed): when the LED thread has
\* finished the loop of a pass (it still holds the lock), for every LED i the
\* private copy current_led_states[i] equals led_state[i] and the level driven
\* on the pin of LED i equals that copy, from the first pass on; and a pass
\* writes a pin only for an LED whose led_state differed from the copy.
LedOutputFollowsStore ==
    /\ [](pc["led"] = "unlock"
            => \A i \in IoIdx : /\ current_led_states[i] = led_state[i]
                                /\ ledPin[i] = current_led_states[i])
    /\ [][\A i \in IoIdx :
            (MainYielded /\ ledPin'[i] # ledPin[i])
                => (pc["led"] = "sync" /\ led_state[i] # current_led_states[i]
                    /\ ledPin'[i] = led_state[i])]_vars

\* C20 -- Response buffer integrity (as claimed): while the transfer of a
\* response is in progress, the output buffer the driver sends from still
\* holds the text composed for the command that submitted it, and no step
\* rewrites the buffer for a later command byte.
ResponseBufferIntegrity ==
    /\ []((tx.busy /\ tx.src = "output") => output = tx.text)
    /\ [][(tx.busy /\ tx.src = "output") => output' = output]_vars
====
